---- MODULE Spec2Model ----
(***************************************************************************)
(* Model of sequence_qc_summary.py: a one-shot script that reads a         *)
(* tab-delimited table, removes rows in three stages (ambiguous 'N',       *)
(* short length, duplicate sequence), writes a removal report and a        *)
(* metrics report, and renders three charts.                               *)
(*                                                                         *)
(* A table (pandas DataFrame) is a sequence of rows; a row is a record     *)
(* with the pandas index label in field "index" and one field per column.  *)
(* A cell of the sequence column is a tuple of one-character strings, or   *)
(* NaN when read_csv found the cell empty (a float, not a str).            *)
(* A float result is kept exact, as a record [num, den, root] standing     *)
(* for the root-th root of num/den; den = 0 is pandas' NaN.                *)
(***************************************************************************)
EXTENDS Integers, Sequences, FiniteSets, TLC

VARIABLES
    argv,                 \* command line: [seq_column, length_column, min_length]
    dataset,              \* the table read by read_csv
    length_dtype,         \* dtype read_csv gave the length column
    pc,                   \* position of the script
    run,                  \* 1: the run on the input file, 2: a run on the kept table
    error,                \* the exception that ended the run, or "none"
    min_length,
    original_rows,
    data,
    removal_records,
    removal_report,
    removed_rows,
    fraction_rows,
    removed_reason_count,
    summary_data,
    files                 \* working directory: file name -> <<>> or <<content>>

vars == <<argv, dataset, length_dtype, pc, run, error, min_length, original_rows,
          data, removal_records, removal_report, removed_rows, fraction_rows,
          removed_reason_count, summary_data, files>>

-----------------------------------------------------------------------------
(* Bounds and input domains *)

MaxRows == 4

NaN == <<"NaN">>

SeqStrings == { <<"G", "N">>, <<"G", "n">>, <<"A", "C">> }

LengthValues == {1, 2}

(* cells of one row of the file: a sequence string with a length, or an    *)
(* empty sequence cell                                                     *)
RowValues == (SeqStrings \X LengthValues) \cup {<<NaN, 1>>}

MinLengthArgs == {"2", "3", "x"}

InputColumns == {"seq", "length", "extra"}

ColumnArgs == [seq_column : {"seq", "nosuch"}, length_column : {"length", "nosuch"}]

-----------------------------------------------------------------------------
(* Generic helpers *)

Range(s) == { s[i] : i \in 1..Len(s) }

RECURSIVE Filter(_, _)
Filter(s, keep) ==
    IF s = <<>> THEN <<>>
    ELSE IF keep[1] THEN <<Head(s)>> \o Filter(Tail(s), Tail(keep))
         ELSE Filter(Tail(s), Tail(keep))

RECURSIVE SumSeq(_)
SumSeq(s) == IF s = <<>> THEN 0 ELSE Head(s) + SumSeq(Tail(s))

RECURSIVE ProdSeq(_)
ProdSeq(s) == IF s = <<>> THEN 1 ELSE Head(s) * ProdSeq(Tail(s))

MinOf(S) == CHOOSE x \in S : \A y \in S : x <= y

MaxOf(S) == CHOOSE x \in S : \A y \in S : x >= y

RECURSIVE SortAsc(_)
SortAsc(s) ==
    IF s = <<>> THEN <<>>
    ELSE LET rest == SortAsc(Tail(s))
             lo == Filter(rest, [i \in 1..Len(rest) |-> rest[i] <= Head(s)])
             hi == Filter(rest, [i \in 1..Len(rest) |-> rest[i] > Head(s)])
         IN lo \o <<Head(s)>> \o hi

Isqrt(n) == MaxOf({ k \in 0..n : k * k <= n })

Rat(n, d) == [num |-> n, den |-> d, root |-> 1]

FloatNaN == [num |-> 0, den |-> 0, root |-> 1]

-----------------------------------------------------------------------------
(* int(argv[4]) *)

IsIntLiteral(s) == s \in {"0", "1", "2", "3", "4"}

ParseInt(s) ==
    CASE s = "0" -> 0
      [] s = "1" -> 1
      [] s = "2" -> 2
      [] s = "3" -> 3
      [] s = "4" -> 4

(* str.count and str.upper *)

RECURSIVE StrCount(_, _)
StrCount(s, c) ==
    IF s = <<>> THEN 0
    ELSE (IF Head(s) = c THEN 1 ELSE 0) + StrCount(Tail(s), c)

UpperChar(c) ==
    CASE c = "a" -> "A"
      [] c = "c" -> "C"
      [] c = "g" -> "G"
      [] c = "t" -> "T"
      [] c = "n" -> "N"
      [] OTHER -> c

StrUpper(s) == [i \in 1..Len(s) |-> UpperChar(s[i])]

IsStr(v) == v # NaN

Column(table, col) == [i \in 1..Len(table) |-> table[i][col]]

-----------------------------------------------------------------------------
(* The three filters.  Each returns [err, clean, removed, reason]; err is   *)
(* the exception raised, "none" when the filter returns.                    *)

Raise(e) == [err |-> e, clean |-> <<>>, removed |-> <<>>, reason |-> ""]

RECURSIVE AmbiguousFailList(_)
AmbiguousFailList(seqs) ==
    IF seqs = <<>> THEN <<>>
    ELSE IF StrCount(Head(seqs), "N") >= 1
         THEN <<Head(seqs)>> \o AmbiguousFailList(Tail(seqs))
         ELSE AmbiguousFailList(Tail(seqs))

(* Variant: the kept table selected without the negation of isin *)
filter_ambiguous_NoNegation(table, seq_column) ==
    IF seq_column \notin InputColumns THEN Raise("KeyError")
    ELSE IF \E i \in 1..Len(table) : ~IsStr(table[i][seq_column])
         THEN Raise("AttributeError")
    ELSE LET fail_list == AmbiguousFailList(Column(table, seq_column))
             isin == [i \in 1..Len(table) |-> table[i][seq_column] \in Range(fail_list)]
         IN [err |-> "none",
             clean |-> Filter(table, isin),
             removed |-> Filter(table, isin),
             reason |-> "ambiguous_N"]

filter_ambiguous(table, seq_column) ==
    IF seq_column \notin InputColumns THEN Raise("KeyError")
    ELSE IF \E i \in 1..Len(table) : ~IsStr(table[i][seq_column])
         THEN Raise("AttributeError")
    ELSE LET fail_list == AmbiguousFailList(Column(table, seq_column))
             isin == [i \in 1..Len(table) |-> table[i][seq_column] \in Range(fail_list)]
         IN [err |-> "none",
             clean |-> Filter(table, [i \in 1..Len(table) |-> ~isin[i]]),
             removed |-> Filter(table, isin),
             reason |-> "ambiguous_N"]

RECURSIVE LengthFailList(_, _)
LengthFailList(lengths, min) ==
    IF lengths = <<>> THEN <<>>
    ELSE IF Head(lengths) < min
         THEN <<Head(lengths)>> \o LengthFailList(Tail(lengths), min)
         ELSE LengthFailList(Tail(lengths), min)

filter_length(table, length_column, min) ==
    IF length_column \notin InputColumns THEN Raise("KeyError")
    ELSE IF length_dtype = "object" /\ Len(table) > 0 THEN Raise("TypeError")
    ELSE LET fail_list == LengthFailList(Column(table, length_column), min)
             isin == [i \in 1..Len(table) |-> table[i][length_column] \in Range(fail_list)]
         IN [err |-> "none",
             clean |-> Filter(table, [i \in 1..Len(table) |-> ~isin[i]]),
             removed |-> Filter(table, isin),
             reason |-> "short_length"]

duplicated(table, subset) ==
    [i \in 1..Len(table) |-> \E j \in 1..(i - 1) : table[j][subset] = table[i][subset]]

drop_duplicates(table, subset) ==
    Filter(table, [i \in 1..Len(table) |-> ~duplicated(table, subset)[i]])

(* Variant: duplicated(keep=False) marks every member of a repeated group *)
filter_duplicate_KeepFalse(table, seq_column) ==
    [err |-> "none",
     clean |-> drop_duplicates(table, seq_column),
     removed |-> Filter(table, [i \in 1..Len(table) |->
                    \E j \in 1..Len(table) :
                        j # i /\ table[j][seq_column] = table[i][seq_column]]),
     reason |-> "duplicate"]

(* Variant: keep='last' in both calls *)
filter_duplicate_KeepLast(table, seq_column) ==
    LET later == [i \in 1..Len(table) |->
                    \E j \in (i + 1)..Len(table) :
                        table[j][seq_column] = table[i][seq_column]]
    IN [err |-> "none",
        clean |-> Filter(table, [i \in 1..Len(table) |-> ~later[i]]),
        removed |-> Filter(table, later),
        reason |-> "duplicate"]

filter_duplicate(table, seq_column) ==
    [err |-> "none",
     clean |-> drop_duplicates(table, seq_column),
     removed |-> Filter(table, duplicated(table, seq_column)),
     reason |-> "duplicate"]

-----------------------------------------------------------------------------
(* Lines 25-33.  read_csv parses the file row by row; the dtype of the      *)
(* length column is int64 unless some cell of it is not a number, and then  *)
(* every cell of the column is a str.                                       *)

Row(i, s, l) == [index |-> i - 1, seq |-> s, length |-> l, extra |-> "x"]

NoArgs == [seq_column |-> "", length_column |-> "", min_length |-> ""]

Init ==
    /\ dataset = <<>>
    /\ length_dtype = "int64"
    /\ argv = NoArgs
    /\ pc = "read_csv"
    /\ run = 1
    /\ error = "none"
    /\ min_length = 0
    /\ original_rows = 0
    /\ data = <<>>
    /\ removal_records = <<>>
    /\ removal_report = <<>>
    /\ removed_rows = 0
    /\ fraction_rows = FloatNaN
    /\ removed_reason_count = <<>>
    /\ summary_data = [metric |-> <<>>, value |-> <<>>]
    /\ files = [removal_report |-> <<>>, metrics_report |-> <<>>, charts |-> <<>>]

Abort(e) == pc' = "aborted" /\ error' = e

ReadRow ==
    /\ pc = "read_csv"
    /\ Len(dataset) < MaxRows
    /\ \E v \in RowValues :
          dataset' = Append(dataset, Row(Len(dataset) + 1, v[1], v[2]))
    /\ UNCHANGED <<argv, length_dtype, pc, run, error, min_length, original_rows,
                   data, removal_records, removal_report, removed_rows, fraction_rows,
                   removed_reason_count, summary_data, files>>

ReadCsvEnd ==
    /\ pc = "read_csv"
    /\ length_dtype' \in {"int64", "object"}
    /\ pc' = "parse_args"
    /\ UNCHANGED <<argv, dataset, run, error, min_length, original_rows,
                   data, removal_records, removal_report, removed_rows, fraction_rows,
                   removed_reason_count, summary_data, files>>

ParseArgs ==
    /\ pc = "parse_args"
    /\ IF run = 1
       THEN \E c \in ColumnArgs, m \in MinLengthArgs :
               argv' = [seq_column |-> c.seq_column, length_column |-> c.length_column,
                        min_length |-> m]
       ELSE UNCHANGED argv
    /\ IF IsIntLiteral(argv'.min_length)
       THEN /\ min_length' = ParseInt(argv'.min_length)
            /\ original_rows' = Len(dataset)
            /\ pc' = "filter_ambiguous"
            /\ UNCHANGED error
       ELSE /\ Abort("ValueError")
            /\ UNCHANGED <<min_length, original_rows>>
    /\ UNCHANGED <<dataset, length_dtype, run, data, removal_records,
                   removal_report, removed_rows, fraction_rows,
                   removed_reason_count, summary_data, files>>

(* Lines 72-77: the orchestration threads the kept table through the stages *)

FilterAmbiguousStep ==
    /\ pc = "filter_ambiguous"
    /\ LET r == filter_ambiguous(dataset, argv.seq_column)
       IN IF r.err = "none"
          THEN /\ data' = r.clean
               /\ removal_records' = Append(removal_records, [df |-> r.removed, reason |-> r.reason])
               /\ pc' = "filter_length"
               /\ UNCHANGED error
          ELSE /\ Abort(r.err)
               /\ UNCHANGED <<data, removal_records>>
    /\ UNCHANGED <<argv, dataset, length_dtype, run, min_length, original_rows,
                   removal_report, removed_rows, fraction_rows,
                   removed_reason_count, summary_data, files>>

(* Variant: the length filter given the original table, not the kept one *)
FilterLengthStep_OnDataset ==
    /\ pc = "filter_length"
    /\ LET r == filter_length(dataset, argv.length_column, min_length)
       IN IF r.err = "none"
          THEN /\ data' = r.clean
               /\ removal_records' = Append(removal_records, [df |-> r.removed, reason |-> r.reason])
               /\ pc' = "filter_duplicate"
               /\ UNCHANGED error
          ELSE /\ Abort(r.err)
               /\ UNCHANGED <<data, removal_records>>
    /\ UNCHANGED <<argv, dataset, length_dtype, run, min_length, original_rows,
                   removal_report, removed_rows, fraction_rows,
                   removed_reason_count, summary_data, files>>

FilterLengthStep ==
    /\ pc = "filter_length"
    /\ LET r == filter_length(data, argv.length_column, min_length)
       IN IF r.err = "none"
          THEN /\ data' = r.clean
               /\ removal_records' = Append(removal_records, [df |-> r.removed, reason |-> r.reason])
               /\ pc' = "filter_duplicate"
               /\ UNCHANGED error
          ELSE /\ Abort(r.err)
               /\ UNCHANGED <<data, removal_records>>
    /\ UNCHANGED <<argv, dataset, length_dtype, run, min_length, original_rows,
                   removal_report, removed_rows, fraction_rows,
                   removed_reason_count, summary_data, files>>

(* Variant: the duplicate filter given the original table, not the kept one *)
FilterDuplicateStep_OnDataset ==
    /\ pc = "filter_duplicate"
    /\ LET r == filter_duplicate(dataset, argv.seq_column)
       IN /\ data' = r.clean
          /\ removal_records' = Append(removal_records, [df |-> r.removed, reason |-> r.reason])
          /\ pc' = "label_records"
    /\ UNCHANGED <<argv, dataset, length_dtype, run, error, min_length, original_rows,
                   removal_report, removed_rows, fraction_rows,
                   removed_reason_count, summary_data, files>>

FilterDuplicateStep ==
    /\ pc = "filter_duplicate"
    /\ LET r == filter_duplicate(data, argv.seq_column)
       IN /\ data' = r.clean
          /\ removal_records' = Append(removal_records, [df |-> r.removed, reason |-> r.reason])
          /\ pc' = "label_records"
    /\ UNCHANGED <<argv, dataset, length_dtype, run, error, min_length, original_rows,
                   removal_report, removed_rows, fraction_rows,
                   removed_reason_count, summary_data, files>>

(* Lines 83-88: keep the two designated columns, add reason_removed *)

(* Variant: the batch labelled without the selection of columns_to_keep *)
LabelRow_AllColumns(row, columns_to_keep, reason) ==
    [f \in DOMAIN row \cup {"reason_removed"} |->
        IF f = "reason_removed" THEN reason ELSE row[f]]

LabelRow(row, columns_to_keep, reason) ==
    [f \in {"index"} \cup columns_to_keep \cup {"reason_removed"} |->
        IF f = "reason_removed" THEN reason ELSE row[f]]

LabelBatch(rec, columns_to_keep) ==
    [i \in 1..Len(rec.df) |-> LabelRow(rec.df[i], columns_to_keep, rec.reason)]

(* Variant: every batch labelled with the reason left by the last stage *)
LabelRecords_StaleReason ==
    /\ pc = "label_records"
    /\ LET columns_to_keep == {argv.seq_column, argv.length_column}
           reason == removal_records[Len(removal_records)].reason
       IN removal_records' =
             [i \in 1..Len(removal_records) |->
                 LabelBatch([df |-> removal_records[i].df, reason |-> reason], columns_to_keep)]
    /\ pc' = "concat_report"
    /\ UNCHANGED <<argv, dataset, length_dtype, run, error, min_length, original_rows,
                   data, removal_report, removed_rows, fraction_rows,
                   removed_reason_count, summary_data, files>>

LabelRecords ==
    /\ pc = "label_records"
    /\ LET columns_to_keep == {argv.seq_column, argv.length_column}
       IN removal_records' =
             [i \in 1..Len(removal_records) |-> LabelBatch(removal_records[i], columns_to_keep)]
    /\ pc' = "concat_report"
    /\ UNCHANGED <<argv, dataset, length_dtype, run, error, min_length, original_rows,
                   data, removal_report, removed_rows, fraction_rows,
                   removed_reason_count, summary_data, files>>

(* Lines 91-94: pd.concat(..., ignore_index=True) and len *)

RECURSIVE Flatten(_)
Flatten(tables) == IF tables = <<>> THEN <<>> ELSE Head(tables) \o Flatten(Tail(tables))

concat(tables) ==
    LET all == Flatten(tables)
    IN [i \in 1..Len(all) |-> [all[i] EXCEPT !.index = i - 1]]

ConcatReport ==
    /\ pc = "concat_report"
    /\ removal_report' = concat(removal_records)
    /\ removed_rows' = Len(removal_report')
    /\ pc' = "compute_fraction"
    /\ UNCHANGED <<argv, dataset, length_dtype, run, error, min_length, original_rows,
                   data, removal_records, fraction_rows,
                   removed_reason_count, summary_data, files>>

(* Line 97: (removed_rows / original_rows) * 100 on Python ints *)

(* Variant: the fraction taken over the kept rows *)
ComputeFraction_ByKept ==
    /\ pc = "compute_fraction"
    /\ IF Len(data) = 0
       THEN /\ Abort("ZeroDivisionError")
            /\ UNCHANGED fraction_rows
       ELSE /\ fraction_rows' = Rat(removed_rows * 100, Len(data))
            /\ pc' = "count_reasons"
            /\ UNCHANGED error
    /\ UNCHANGED <<argv, dataset, length_dtype, run, min_length, original_rows,
                   data, removal_records, removal_report, removed_rows,
                   removed_reason_count, summary_data, files>>

ComputeFraction ==
    /\ pc = "compute_fraction"
    /\ IF original_rows = 0
       THEN /\ Abort("ZeroDivisionError")
            /\ UNCHANGED fraction_rows
       ELSE /\ fraction_rows' = Rat(removed_rows * 100, original_rows)
            /\ pc' = "count_reasons"
            /\ UNCHANGED error
    /\ UNCHANGED <<argv, dataset, length_dtype, run, min_length, original_rows,
                   data, removal_records, removal_report, removed_rows,
                   removed_reason_count, summary_data, files>>

(* Line 100: Series.value_counts(): the distinct values in order of first   *)
(* appearance with their counts, then a stable sort by descending count.    *)

RECURSIVE Unique(_)
Unique(s) ==
    IF s = <<>> THEN <<>>
    ELSE LET front == Unique(SubSeq(s, 1, Len(s) - 1))
             last == s[Len(s)]
         IN IF last \in Range(front) THEN front ELSE Append(front, last)

RECURSIVE SortCountsDesc(_)
SortCountsDesc(s) ==
    IF s = <<>> THEN <<>>
    ELSE LET rest == SortCountsDesc(Tail(s))
             before == Filter(rest, [i \in 1..Len(rest) |-> rest[i].value > Head(s).value])
             after == Filter(rest, [i \in 1..Len(rest) |-> rest[i].value <= Head(s).value])
         IN before \o <<Head(s)>> \o after

(* Variant: value_counts(sort=False) *)
value_counts_Unsorted(series) ==
    LET keys == Unique(series)
    IN [k \in 1..Len(keys) |->
          [index |-> keys[k],
           value |-> Cardinality({ i \in 1..Len(series) : series[i] = keys[k] })]]

value_counts(series) ==
    LET keys == Unique(series)
        counts == [k \in 1..Len(keys) |->
                     [index |-> keys[k],
                      value |-> Cardinality({ i \in 1..Len(series) : series[i] = keys[k] })]]
    IN SortCountsDesc(counts)

CountReasons ==
    /\ pc = "count_reasons"
    /\ removed_reason_count' = value_counts(Column(removal_report, "reason_removed"))
    /\ pc' = "write_removal_report"
    /\ UNCHANGED <<argv, dataset, length_dtype, run, error, min_length, original_rows,
                   data, removal_records, removal_report, removed_rows, fraction_rows,
                   summary_data, files>>

(* Line 103: to_csv(..., index=False) writes the columns, not the index *)

to_csv(table) ==
    [i \in 1..Len(table) |-> [f \in DOMAIN table[i] \ {"index"} |-> table[i][f]]]

WriteRemovalReport ==
    /\ pc = "write_removal_report"
    /\ files' = [files EXCEPT !.removal_report = <<to_csv(removal_report)>>]
    /\ pc' = "compute_gc"
    /\ UNCHANGED <<argv, dataset, length_dtype, run, error, min_length, original_rows,
                   data, removal_records, removal_report, removed_rows, fraction_rows,
                   removed_reason_count, summary_data>>

(* Line 107: the GC_percentage column of the kept table *)

GCPercentage(seq) ==
    Rat((StrCount(StrUpper(seq), "G") + StrCount(StrUpper(seq), "C")) * 100, Len(seq))

ComputeGC ==
    /\ pc = "compute_gc"
    /\ data' = [i \in 1..Len(data) |->
                  [f \in DOMAIN data[i] \cup {"GC_percentage"} |->
                      IF f = "GC_percentage" THEN GCPercentage(data[i][argv.seq_column])
                      ELSE data[i][f]]]
    /\ pc' = "summarise"
    /\ UNCHANGED <<argv, dataset, length_dtype, run, error, min_length, original_rows,
                   removal_records, removal_report, removed_rows, fraction_rows,
                   removed_reason_count, summary_data, files>>

(* Lines 110-135: min, max, mean, median, std of a column whose values are  *)
(* nums[i] / den; every statistic of an empty column is NaN, and so is the  *)
(* sample standard deviation of a single value.                             *)

Median(nums, den) ==
    LET s == SortAsc(nums)
        n == Len(s)
    IN IF n % 2 = 1 THEN Rat(s[(n + 1) \div 2], den)
       ELSE Rat(s[n \div 2] + s[n \div 2 + 1], 2 * den)

Std(nums, den) ==
    LET n == Len(nums)
        sq == [i \in 1..n |-> nums[i] * nums[i]]
    IN IF n <= 1 THEN FloatNaN
       ELSE [num |-> n * SumSeq(sq) - SumSeq(nums) * SumSeq(nums),
             den |-> n * (n - 1) * den * den,
             root |-> 2]

Stats(nums, den) ==
    IF nums = <<>> THEN <<FloatNaN, FloatNaN, FloatNaN, FloatNaN, FloatNaN>>
    ELSE << Rat(MinOf(Range(nums)), den),
            Rat(MaxOf(Range(nums)), den),
            Rat(SumSeq(nums), Len(nums) * den),
            Median(nums, den),
            Std(nums, den) >>

ColumnStats(table, col) ==
    IF col = "GC_percentage"
    THEN LET gc == Column(table, col)
             den == ProdSeq([i \in 1..Len(gc) |-> gc[i].den])
         IN Stats([i \in 1..Len(gc) |-> gc[i].num * (den \div gc[i].den)], den)
    ELSE Stats(Column(table, col), 1)

StatNames(col) == << <<"min", col>>, <<"max", col>>, <<"mean", col>>,
                     <<"median", col>>, <<"std", col>> >>

Summarise ==
    /\ pc = "summarise"
    /\ LET numeric_cols == <<argv.length_column, "GC_percentage">>
           reasons == [i \in 1..Len(removed_reason_count) |->
                          <<"removed", removed_reason_count[i].index>>]
           counts == [i \in 1..Len(removed_reason_count) |-> removed_reason_count[i].value]
       IN summary_data' =
            [metric |-> StatNames(numeric_cols[1]) \o StatNames(numeric_cols[2])
                        \o << <<"removed_rows">>, <<"fraction_rows">> >> \o reasons,
             value |-> ColumnStats(data, numeric_cols[1]) \o ColumnStats(data, numeric_cols[2])
                       \o <<removed_rows, fraction_rows>> \o counts]
    /\ pc' = "write_metrics_report"
    /\ UNCHANGED <<argv, dataset, length_dtype, run, error, min_length, original_rows,
                   data, removal_records, removal_report, removed_rows, fraction_rows,
                   removed_reason_count, files>>

(* Line 136 *)

WriteMetricsReport ==
    /\ pc = "write_metrics_report"
    /\ files' = [files EXCEPT !.metrics_report = <<summary_data>>]
    /\ pc' = "render_charts"
    /\ UNCHANGED <<argv, dataset, length_dtype, run, error, min_length, original_rows,
                   data, removal_records, removal_report, removed_rows, fraction_rows,
                   removed_reason_count, summary_data>>

(* Lines 144-193: three charts, the histograms with int(sqrt(n)) bins, the  *)
(* pie with one wedge per entry of removed_reason_count                     *)

Charts ==
    LET number_bins == Isqrt(Len(data))
    IN << [name |-> "Sequence_length_distribution.png", bins |-> number_bins],
          [name |-> "gc_base_proportion.png", bins |-> number_bins],
          [name |-> "Sequence_removal_reason.png",
           wedges |-> [i \in 1..Len(removed_reason_count) |-> removed_reason_count[i].value]] >>

RenderCharts ==
    /\ pc = "render_charts"
    /\ files' = [files EXCEPT !.charts = Charts]
    /\ pc' = "done"
    /\ UNCHANGED <<argv, dataset, length_dtype, run, error, min_length, original_rows,
                   data, removal_records, removal_report, removed_rows, fraction_rows,
                   removed_reason_count, summary_data>>

(* to_csv (lines 103, 136) and the plotting calls (lines 148-192) are calls *)
(* into the file system and the plotting backend: any of them may raise.    *)
(* Nothing catches the exception, so the script ends there; the charts      *)
(* already saved stay on disk.                                              *)

ExternalFailure ==
    /\ pc \in {"write_removal_report", "write_metrics_report", "render_charts"}
    /\ IF pc = "render_charts"
       THEN \E k \in 0..2 : files' = [files EXCEPT !.charts = SubSeq(Charts, 1, k)]
       ELSE UNCHANGED files
    /\ Abort("OSError")
    /\ UNCHANGED <<argv, dataset, length_dtype, run, min_length, original_rows,
                   data, removal_records, removal_report, removed_rows, fraction_rows,
                   removed_reason_count, summary_data>>

(* A second invocation whose input table is the kept table of the first;    *)
(* the working directory, with the files of the first run, is the same.     *)

Rerun ==
    /\ pc = "done"
    /\ run = 1
    /\ dataset' = data
    /\ run' = 2
    /\ pc' = "parse_args"
    /\ min_length' = 0
    /\ original_rows' = 0
    /\ data' = <<>>
    /\ removal_records' = <<>>
    /\ removal_report' = <<>>
    /\ removed_rows' = 0
    /\ fraction_rows' = FloatNaN
    /\ removed_reason_count' = <<>>
    /\ summary_data' = [metric |-> <<>>, value |-> <<>>]
    /\ UNCHANGED <<argv, length_dtype, error, files>>

Next ==
    \/ ReadRow
    \/ ReadCsvEnd
    \/ ParseArgs
    \/ FilterAmbiguousStep
    \/ FilterLengthStep
    \/ FilterDuplicateStep
    \/ LabelRecords
    \/ ConcatReport
    \/ ComputeFraction
    \/ CountReasons
    \/ WriteRemovalReport
    \/ ComputeGC
    \/ Summarise
    \/ WriteMetricsReport
    \/ RenderCharts
    \/ ExternalFailure

Spec == Init /\ [][Next]_vars

NextRerun == Next \/ Rerun

SpecRerun == Init /\ [][NextRerun]_vars

-----------------------------------------------------------------------------
(* Vocabulary of the properties.  A row is identified by its index label,  *)
(* which read_csv gives once and no filter changes.                        *)

FiltersDone == Len(removal_records) = 3

Labelled == FiltersDone /\ pc # "label_records"

ReportBuilt == Labelled /\ pc # "concat_report"

FractionDone == ReportBuilt /\ pc # "compute_fraction" /\ error # "ZeroDivisionError"

SummaryDone == Len(summary_data.metric) > 0

Finished == pc \in {"aborted", "done"}

ValidArgs ==
    /\ IsIntLiteral(argv.min_length)
    /\ argv.seq_column \in InputColumns
    /\ argv.length_column \in InputColumns

BatchRows(k) == IF Labelled THEN removal_records[k] ELSE removal_records[k].df

HasN(s) == \E i \in 1..Len(s) : s[i] = "N"

PassesFirstTwo(row) == ~HasN(row.seq) /\ row.length >= min_length

ExpectedReason(i) ==
    LET row == dataset[i]
    IN IF HasN(row.seq) THEN "ambiguous_N"
       ELSE IF row.length < min_length THEN "short_length"
       ELSE IF \E j \in 1..(i - 1) : PassesFirstTwo(dataset[j]) /\ dataset[j].seq = row.seq
            THEN "duplicate"
       ELSE "kept"

Reasons == <<"ambiguous_N", "short_length", "duplicate">>

ReasonOrder(r) == CHOOSE k \in 1..3 : Reasons[k] = r

RowsWithReason(r) == { i \in 1..Len(dataset) : ExpectedReason(i) = r }

Indexes(table) == { table[i].index : i \in 1..Len(table) }

IsSubTable(part, table) ==
    /\ Len(part) = Cardinality(Indexes(part))
    /\ part = Filter(table, [i \in 1..Len(table) |-> table[i].index \in Indexes(part)])

Partition(input, kept, removed) ==
    /\ IsSubTable(kept, input)
    /\ IsSubTable(removed, input)
    /\ Indexes(kept) \cap Indexes(removed) = {}
    /\ Indexes(kept) \cup Indexes(removed) = Indexes(input)

-----------------------------------------------------------------------------
(* C1: once the three filters have run and the removal report is built,    *)
(* the rows of the removal report plus the rows of the final kept table    *)
(* are as many as the original table had before any filter ran.            *)
C1_RowConservation ==
    ReportBuilt =>
        /\ original_rows = Len(dataset)
        /\ Len(removal_report) + Len(data) = original_rows

C1_Witness ==
    /\ pc = "done"
    /\ \A k \in 1..3 : Len(removal_records[k]) >= 1
    /\ Len(data) >= 1
    /\ Len(removal_report) = 3

(* C2 as stated: every row of the final kept table has no 'N', has length  *)
(* >= min_length, and is the first row of the ORIGINAL table with its      *)
(* sequence string.                                                        *)
C2_FirstInOriginalTable ==
    FiltersDone =>
        \A i \in 1..Len(data) :
            /\ ~HasN(data[i].seq)
            /\ data[i].length >= min_length
            /\ \A j \in 1..Len(dataset) :
                  dataset[j].index < data[i].index => dataset[j].seq # data[i].seq

(* C2 amended: every row of the final kept table has no 'N', has length    *)
(* >= min_length, and is the first row with its sequence string among the  *)
(* rows of the original table that passed the ambiguous and length filters.*)
C2_FirstAmongSurvivors ==
    FiltersDone =>
        \A i \in 1..Len(data) :
            /\ ~HasN(data[i].seq)
            /\ data[i].length >= min_length
            /\ \A j \in 1..Len(dataset) :
                  (dataset[j].index < data[i].index /\ PassesFirstTwo(dataset[j]))
                      => dataset[j].seq # data[i].seq

C2_Witness ==
    /\ FiltersDone
    /\ \E i \in 1..Len(data) : \E j \in 1..Len(dataset) :
          /\ dataset[j].index < data[i].index
          /\ dataset[j].seq = data[i].seq
          /\ dataset[j].length < min_length
    /\ Len(BatchRows(3)) >= 1

(* C3: in a run whose input is the kept table of a finished run, with the  *)
(* same min_length, the three filters complete, each removes no row, and   *)
(* the kept table is the input table, in the same order.                   *)
C3_Idempotent ==
    run = 2 =>
        /\ \A k \in 1..Len(removal_records) : Len(BatchRows(k)) = 0
        /\ pc \notin {"read_csv", "parse_args", "filter_ambiguous"} => data = dataset
        /\ pc = "aborted" => error \in {"ZeroDivisionError", "OSError"}

C3_Witness ==
    /\ run = 2
    /\ ReportBuilt
    /\ Len(data) >= 2
    /\ Len(files.removal_report[1]) >= 2

(* C4: every original row is kept, or is in exactly one labelled batch,    *)
(* once, with the reason of the first stage that rejects it: ambiguous_N   *)
(* if its sequence has an 'N', else short_length if its length is below    *)
(* min_length, else duplicate if an earlier row that passed both filters   *)
(* has the same sequence; the report counts each reason accordingly.       *)
C4_OneReasonPerRow ==
    /\ Labelled =>
          \A i \in 1..Len(dataset) :
              LET where == { kj \in (1..3) \X (1..Len(dataset)) :
                                /\ kj[2] <= Len(removal_records[kj[1]])
                                /\ removal_records[kj[1]][kj[2]].index = dataset[i].index }
              IN IF ExpectedReason(i) = "kept"
                 THEN /\ where = {}
                      /\ dataset[i].index \in Indexes(data)
                 ELSE /\ Cardinality(where) = 1
                      /\ \A kj \in where :
                            removal_records[kj[1]][kj[2]].reason_removed = ExpectedReason(i)
                      /\ dataset[i].index \notin Indexes(data)
    /\ ReportBuilt =>
          \A k \in 1..3 :
              Cardinality({ i \in 1..Len(removal_report) :
                              removal_report[i].reason_removed = Reasons[k] })
                  = Cardinality(RowsWithReason(Reasons[k]))

C4_Witness ==
    /\ ReportBuilt
    /\ \E i \in 1..Len(dataset) : HasN(dataset[i].seq) /\ dataset[i].length < min_length
    /\ \E i, j \in 1..Len(dataset) :
          i # j /\ dataset[i].seq = dataset[j].seq /\ dataset[i].length # dataset[j].length
    /\ \E i, j \in 1..Len(dataset) :
          i # j /\ dataset[i].seq # dataset[j].seq /\ dataset[i].length = dataset[j].length
    /\ Len(removal_records[2]) >= 1
    /\ Len(removal_records[3]) >= 1

(* C5: in the metrics report, removed_rows and fraction_rows are followed  *)
(* by one removed_<reason> entry per reason with at least one removed row  *)
(* and none for a reason with no removed row, each with its row count, in  *)
(* descending order of count, ties in filter execution order; the counts   *)
(* add up to removed_rows.                                                 *)
C5_ReasonEntries ==
    SummaryDone =>
        LET metric == summary_data.metric
            value == summary_data.value
            n == Len(metric)
            count(r) == Cardinality(RowsWithReason(r))
        IN /\ Len(value) = n
           /\ metric[11] = <<"removed_rows">>
           /\ value[11] = removed_rows
           /\ metric[12] = <<"fraction_rows">>
           /\ \A i \in 13..n :
                 /\ metric[i][1] = "removed"
                 /\ metric[i][2] \in Range(Reasons)
                 /\ value[i] = count(metric[i][2])
                 /\ value[i] >= 1
           /\ \A k \in 1..3 :
                 Cardinality({ i \in 13..n : metric[i][2] = Reasons[k] })
                     = IF count(Reasons[k]) >= 1 THEN 1 ELSE 0
           /\ \A i \in 13..(n - 1) :
                 \/ value[i] > value[i + 1]
                 \/ /\ value[i] = value[i + 1]
                    /\ ReasonOrder(metric[i][2]) < ReasonOrder(metric[i + 1][2])
           /\ SumSeq(SubSeq(value, 13, n)) = removed_rows

C5_Witness ==
    /\ SummaryDone
    /\ Len(summary_data.metric) = 14
    /\ summary_data.value[13] > summary_data.value[14]
    /\ ReasonOrder(summary_data.metric[13][2]) > ReasonOrder(summary_data.metric[14][2])

(* C6: the removal report lists the ambiguous_N rows, then the             *)
(* short_length rows, then the duplicate rows, each group in input order,  *)
(* and a report row has the sequence, the length and reason_removed only.  *)
C6_ReportOrder ==
    ReportBuilt =>
        LET expected == Flatten([k \in 1..3 |->
                           Filter(dataset, [i \in 1..Len(dataset) |->
                                               ExpectedReason(i) = Reasons[k]])])
            reasons == Flatten([k \in 1..3 |->
                           [i \in 1..Cardinality(RowsWithReason(Reasons[k])) |-> Reasons[k]]])
        IN /\ Len(removal_report) = Len(expected)
           /\ \A i \in 1..Len(removal_report) :
                 /\ DOMAIN removal_report[i] = {"index", "seq", "length", "reason_removed"}
                 /\ removal_report[i].index = i - 1
                 /\ removal_report[i].seq = expected[i].seq
                 /\ removal_report[i].length = expected[i].length
                 /\ removal_report[i].reason_removed = reasons[i]

C6_Witness ==
    /\ ReportBuilt
    /\ Len(removal_report) = 3
    /\ removal_report[1].reason_removed = "ambiguous_N"
    /\ removal_report[2].reason_removed = "short_length"
    /\ removal_report[3].reason_removed = "short_length"
    /\ removal_report[2].seq # removal_report[3].seq

(* C7: in every run that has aborted, neither QC_removal_report.tsv nor    *)
(* QC_metrics_report.csv has been written.                                 *)
C7_NoPartialOutput ==
    pc = "aborted" => files.removal_report = <<>> /\ files.metrics_report = <<>>

(* C8: each filter, when it returns, returns a kept and a removed table    *)
(* that are disjoint by row identity, hold every input row once between    *)
(* them, keep the input order, and the table read from the file is left    *)
(* as it was.                                                              *)
C8_FilterPartition ==
    [][ /\ (pc = "filter_ambiguous" /\ pc' = "filter_length")
            => Partition(dataset, data', removal_records'[1].df)
        /\ (pc = "filter_length" /\ pc' = "filter_duplicate")
            => Partition(data, data', removal_records'[2].df)
        /\ (pc = "filter_duplicate" /\ pc' = "label_records")
            => Partition(data, data', removal_records'[3].df)
        /\ pc \in {"filter_ambiguous", "filter_length", "filter_duplicate"}
            => dataset' = dataset ]_vars

C8_Witness ==
    /\ pc = "label_records"
    /\ \A k \in 1..3 : Len(removal_records[k].df) >= 1
    /\ Len(data) >= 1

(* C9: every row removed as a duplicate has no 'N', has length >=          *)
(* min_length, and has the same sequence string as a row of the final kept *)
(* table that precedes it in input order.                                  *)
C9_DuplicateOfKeptRow ==
    FiltersDone =>
        \A i \in 1..Len(BatchRows(3)) :
            LET row == BatchRows(3)[i]
            IN /\ ~HasN(row.seq)
               /\ row.length >= min_length
               /\ \E j \in 1..Len(data) :
                     data[j].seq = row.seq /\ data[j].index < row.index

C9_Witness ==
    /\ FiltersDone
    /\ Len(BatchRows(3)) >= 1
    /\ \E i \in 1..Len(BatchRows(3)) : \E j \in 1..Len(BatchRows(2)) :
          /\ BatchRows(2)[j].seq = BatchRows(3)[i].seq
          /\ BatchRows(2)[j].index < BatchRows(3)[i].index

(* C10 as stated: whenever original_rows has been taken and is zero, the   *)
(* filters complete with empty tables and the run aborts on the division   *)
(* by zero before either report is written; with at least one row          *)
(* fraction_rows is defined, equals removed_rows / original_rows * 100 and *)
(* lies between 0 and 100.                                                 *)
FractionContract ==
    /\ (pc = "aborted" /\ error = "ZeroDivisionError") => original_rows = 0
    /\ (FractionDone /\ original_rows >= 1) =>
          /\ fraction_rows.den # 0
          /\ fraction_rows.root = 1
          /\ fraction_rows.num * original_rows = removed_rows * 100 * fraction_rows.den
          /\ 0 <= fraction_rows.num
          /\ fraction_rows.num <= 100 * fraction_rows.den

ZeroRowsTaken ==
    /\ pc \notin {"read_csv", "parse_args"}
    /\ error # "ValueError"
    /\ original_rows = 0
    /\ Len(dataset) = 0

ZeroRowsAbort ==
    /\ error = "ZeroDivisionError"
    /\ FiltersDone
    /\ \A k \in 1..3 : Len(BatchRows(k)) = 0
    /\ data = <<>>
    /\ files.removal_report = <<>>
    /\ files.metrics_report = <<>>

====
